---- MODULE Spec2Model ----
(***************************************************************************)
(* MoonBot: a Discord bot kept in three revisions.                         *)
(*   "A"  src/index.js lines 1-254     (welcome with a constant inviter)   *)
(*   "B"  src/index.js lines 256-591   (welcome with an invite lookup)     *)
(*   "P"  src/unnamed/part_000         (free games + welcome with lookup)  *)
(* The variable rev fixes which revision runs.                             *)
(***************************************************************************)
EXTENDS Integers, Sequences, FiniteSets, TLC

VARIABLES rev,      \* the revision that is running
          join,     \* the guildMemberAdd handler in flight (one at a time)
          timer,    \* the setInterval callback that refreshes invites
          nextFid,  \* number of the next guild.invites.fetch() request
          lastOk,   \* history: per guild, the last fetch that resolved
          handlers, \* the messageCreate handlers in flight
          now,      \* Date.now()
          ticks,    \* how often the clock has moved
          lastCommandTimestamp,
          env,      \* the names of the environment variables that are set
          boot,     \* the process: its top-level script, listeners, timers
          poll      \* the fetchFreeGames call in flight (one at a time)

varsInvites == <<join, timer, nextFid, lastOk>>
varsMessages == <<handlers, now, ticks, lastCommandTimestamp>>
varsProcess == <<env, boot>>
vars == <<rev, varsInvites, varsMessages, varsProcess, poll>>

Revisions == {"A", "B", "P"}

\* The process is up, logged in, and has a listener for the event.
Listening(ev) == boot.pc = "running" /\ boot.loggedIn /\ ev \in boot.listeners

(***************************************************************************)
(* Bounds and the small input sets.                                        *)
(***************************************************************************)
MaxFetches == 4
MaxTicks == 3
\* One messageCreate handler at a time: handlers share lastCommandTimestamp
\* only, which each reads and writes before its first await.
Handlers == {"h1"}

Guilds == {"g1", "g2"}
\* client.guilds.cache.values(): the guilds in the order of the cache
GuildOrder == <<"g1", "g2">>
Users == {"u1", "u2"}
\* Invite.inviter is null when the platform does not report an inviter
NoInviter == "null"

Inv(inviter, uses) == [inviter |-> inviter, uses |-> uses]

\* The invite lists the platform may answer a fetch with, in stored order.
Snapshots ==
  { << >>,
    << Inv("u1", 0) >>,
    << Inv("u1", 0), Inv("u2", 2) >>,
    << Inv("u1", 1), Inv("u2", 2) >>,
    << Inv(NoInviter, 1), Inv("u2", 1) >>,
    << Inv(NoInviter, 1) >> }

\* User.tag of a user id
UserTag(u) == IF u = "u1" THEN "Alice#0001" ELSE "Bob#0002"

Unknown == "Unknown"

(***************************************************************************)
(* guild.invites.fetch(): the answer is a new collection, every entry of   *)
(* which belongs to the guild asked and to this one request.               *)
(***************************************************************************)
FetchedFrom(s, g, fid) ==
  [i \in 1..Len(s) |->
     [inviter |-> s[i].inviter, uses |-> s[i].uses, guild |-> g, fid |-> fid]]

NoFetch == [ok |-> FALSE, fid |-> 0, invites |-> << >>]
Fetched(invites, fid) == [ok |-> TRUE, fid |-> fid, invites |-> invites]

(***************************************************************************)
(* The predicate given to Collection.find in the two revisions that look   *)
(* the inviter up, and find itself: the first entry, in stored order, for  *)
(* which the predicate is true.                                            *)
(*   P: invite.uses > 0 && invite.inviter                                  *)
(*   B: invite.uses > 0 && invite.inviter.id === member.id                 *)
(* In B, reading .id of a null inviter throws a TypeError; && evaluates    *)
(* its right side only when uses > 0.                                      *)
(***************************************************************************)
usedInvitePredicate(r, invite, member) ==
  IF invite.uses > 0
  THEN IF r = "P"
       THEN (IF invite.inviter # NoInviter THEN "true" ELSE "false")
       ELSE (IF invite.inviter = NoInviter THEN "throw"
             ELSE IF invite.inviter = member THEN "true" ELSE "false")
  ELSE "false"

\* Index of the entry found, 0 when none is found, -1 when the predicate threw.
RECURSIVE find(_, _, _, _)
find(r, invites, member, i) ==
  IF i > Len(invites) THEN 0
  ELSE LET p == usedInvitePredicate(r, invites[i], member)
       IN  IF p = "throw" THEN -1
           ELSE IF p = "true" THEN i
           ELSE find(r, invites, member, i + 1)

\* invitedBy after the lookup: usedInvite.inviter.tag or the default
invitedByOf(r, invites, member) ==
  LET k == find(r, invites, member, 1)
  IN  IF k > 0 THEN UserTag(invites[k].inviter) ELSE Unknown

(***************************************************************************)
(* The guildMemberAdd handler.                                             *)
(*   pc       "idle" | "fetch" (awaiting guild.invites.fetch()) | "done"   *)
(*   channel  whether the welcome channel was found in the cache           *)
(*   fetches  how many times the handler called guild.invites.fetch()      *)
(*   fetchOk / fetchFailed   how its fetch ended                          *)
(*   attributed  whether the handler got as far as fixing invitedBy        *)
(*   raised   the errors thrown while the handler ran                      *)
(*   outcome  "sent" (welcome message handed to channel.send),             *)
(*            "skipped" (returned after the warning),                      *)
(*            "uncaught" (the handler's promise rejected)                  *)
(*   prev     history: lastOk of the guild just before the handler's own   *)
(*            fetch ended (or, in A, when the handler ran)                 *)
(***************************************************************************)
IdleJoin ==
  [pc |-> "idle", guild |-> "g1", fetchGuild |-> "g1", member |-> "u1",
   channel |-> FALSE,
   fid |-> 0, fetches |-> 0, fetchOk |-> FALSE, fetchFailed |-> FALSE,
   invites |-> << >>, attributed |-> FALSE, invitedBy |-> Unknown,
   raised |-> {},
   outcome |-> "none", sentInvitedBy |-> "none", prev |-> NoFetch]

\* channel.send(...) on the channel looked up: undefined.send throws a TypeError
\* (index.js sendWelcomeGoodbyeMessage); part_000 has returned before if missing.
SendWelcome(j) ==
  IF j.channel
  THEN [j EXCEPT !.pc = "done", !.outcome = "sent", !.sentInvitedBy = j.invitedBy]
  ELSE [j EXCEPT !.pc = "done", !.outcome = "uncaught",
                 !.raised = @ \cup {"TypeError:send"}]

\* (mutant) the invites of the first guild of the cache, whoever joined
FetchGuildOf_FirstGuild(g) == GuildOrder[1]

\* The guild whose invites the handler fetches: member.guild
FetchGuildOf(g) == g

\* (mutant) a shared list that every fetch for the guild appends to
ScannedInvites_Shared(own, others) == others \o own

\* The collection the handler's find runs on: the one its own await returned
ScannedInvites(own, others) == own

\* The handler up to its first await (A has none and runs to its end).
JoinStart(g, m, chan) ==
  /\ Listening("guildMemberAdd")
  /\ join.pc = "idle"
  /\ LET j0 == [IdleJoin EXCEPT !.guild = g, !.member = m, !.channel = chan]
     IN  CASE rev = "A" ->
                /\ join' = SendWelcome([j0 EXCEPT !.invitedBy = Unknown,
                                                  !.attributed = TRUE,
                                                  !.prev = lastOk[g]])
                /\ UNCHANGED nextFid
          [] rev = "P" /\ ~chan ->
                /\ join' = [j0 EXCEPT !.pc = "done", !.outcome = "skipped"]
                /\ UNCHANGED nextFid
          [] OTHER ->
                /\ nextFid <= MaxFetches
                /\ join' = [j0 EXCEPT !.pc = "fetch", !.fid = nextFid,
                                      !.fetchGuild = FetchGuildOf(g),
                                      !.fetches = 1]
                /\ nextFid' = nextFid + 1
  /\ UNCHANGED <<rev, poll, timer, lastOk, varsMessages, varsProcess>>

\* guild.invites.fetch() resolves with s: the lookup, then the welcome message.
JoinFetchOk(s) ==
  /\ boot.pc = "running"
  /\ join.pc = "fetch"
  /\ LET g    == join.fetchGuild
         own  == FetchedFrom(s, g, join.fid)
         inv  == ScannedInvites(own, lastOk[g].invites)
         k    == find(rev, inv, join.member, 1)
         j1   == [join EXCEPT !.fetchOk = TRUE, !.invites = inv,
                              !.prev = lastOk[g],
                              !.attributed = TRUE,
                              !.invitedBy = invitedByOf(rev, inv, join.member),
                              !.raised = IF k = -1 THEN {"TypeError:inviter"}
                                         ELSE {}]
     IN  /\ join' = SendWelcome(j1)
         /\ lastOk' = [lastOk EXCEPT ![g] = Fetched(own, join.fid)]
  /\ UNCHANGED <<rev, poll, timer, nextFid, varsMessages, varsProcess>>

\* guild.invites.fetch() rejects: B catches and logs it, P has no try around it.
JoinFetchFail ==
  /\ boot.pc = "running"
  /\ join.pc = "fetch"
  /\ LET j1 == [join EXCEPT !.fetchFailed = TRUE,
                            !.prev = lastOk[join.fetchGuild],
                            !.raised = {"FetchError"}]
     IN  IF rev = "B"
         THEN join' = SendWelcome([j1 EXCEPT !.invitedBy = Unknown,
                                            !.attributed = TRUE])
         ELSE join' = [j1 EXCEPT !.pc = "done", !.outcome = "uncaught"]
  /\ UNCHANGED <<rev, poll, timer, nextFid, lastOk, varsMessages, varsProcess>>

\* The handler has ended; the next member may join.
JoinRetire ==
  /\ boot.pc = "running"
  /\ join.pc = "done"
  /\ join' = IdleJoin
  /\ UNCHANGED <<rev, poll, timer, nextFid, lastOk, varsMessages, varsProcess>>

(***************************************************************************)
(* The 10 minute invite timer of A and B (P has none): for each guild of   *)
(* the cache, in order, await fetchInvites(guild). fetchInvites logs the   *)
(* size of what it fetched, or the error, and keeps nothing.               *)
(*   pc "idle" | "fetch" (awaiting the fetch for GuildOrder[idx])          *)
(*   calls  history: the fetchInvites calls of the last tick that have      *)
(*          ended, in order, with how each ended                            *)
(***************************************************************************)
IdleTimer == [pc |-> "idle", idx |-> 0, base |-> 0, failed |-> {}, calls |-> << >>]

TimerFid == timer.base + timer.idx - 1

TimerTick ==
  /\ boot.pc = "running" /\ "inviteTimer" \in boot.timers
  /\ timer.pc = "idle"
  /\ nextFid + Len(GuildOrder) - 1 <= MaxFetches
  /\ timer' = [pc |-> "fetch", idx |-> 1, base |-> nextFid, failed |-> {},
               calls |-> << >>]
  /\ nextFid' = nextFid + Len(GuildOrder)
  /\ UNCHANGED <<rev, poll, join, lastOk, varsMessages, varsProcess>>

\* (mutant) the error of a failing refresh leaves the loop
TimerAdvance_StopOnFailure(failedNow) ==
  LET t == [timer EXCEPT !.calls = Append(@, [guild |-> GuildOrder[timer.idx],
                                              ok |-> failedNow = {}])]
  IN  IF timer.idx < Len(GuildOrder) /\ failedNow = {}
      THEN [t EXCEPT !.idx = @ + 1]
      ELSE [IdleTimer EXCEPT !.calls = t.calls]

\* await fetchInvites(guild) returns, whatever the fetch did: the loop goes
\* on to the next guild, or ends after the last.
TimerAdvance(failedNow) ==
  LET t == [timer EXCEPT !.calls = Append(@, [guild |-> GuildOrder[timer.idx],
                                              ok |-> failedNow = {}])]
  IN  IF timer.idx < Len(GuildOrder)
      THEN [t EXCEPT !.idx = @ + 1, !.failed = @ \cup failedNow]
      ELSE [IdleTimer EXCEPT !.calls = t.calls]

\* fetchInvites(guild): the fetch resolves; the result is logged and dropped.
fetchInvitesOk(s) ==
  /\ boot.pc = "running"
  /\ timer.pc = "fetch"
  /\ LET g == GuildOrder[timer.idx]
     IN  lastOk' = [lastOk EXCEPT ![g] = Fetched(FetchedFrom(s, g, TimerFid), TimerFid)]
  /\ timer' = TimerAdvance({})
  /\ UNCHANGED <<rev, poll, join, nextFid, varsMessages, varsProcess>>

\* fetchInvites(guild): the fetch rejects; the error is logged and swallowed.
fetchInvitesFail ==
  /\ boot.pc = "running"
  /\ timer.pc = "fetch"
  /\ timer' = TimerAdvance({GuildOrder[timer.idx]})
  /\ UNCHANGED <<rev, poll, join, nextFid, lastOk, varsMessages, varsProcess>>

(***************************************************************************)
(* Text. A message's content is the sequence of its characters; the        *)
(* operators below are the String methods the messageCreate handler calls. *)
(***************************************************************************)
Space == " "
\* String.prototype.startsWith
StartsWith(s, p) == Len(s) >= Len(p) /\ SubSeq(s, 1, Len(p)) = p
\* String.prototype.slice(n): from the 0-based index n to the end
Slice(s, n) == SubSeq(s, n + 1, Len(s))

RECURSIVE TrimStart(_)
TrimStart(s) ==
  IF s # << >> /\ Head(s) = Space THEN TrimStart(Tail(s)) ELSE s
RECURSIVE TrimEnd(_)
TrimEnd(s) ==
  IF s # << >> /\ s[Len(s)] = Space THEN TrimEnd(SubSeq(s, 1, Len(s) - 1)) ELSE s
\* String.prototype.trim
Trim(s) == TrimEnd(TrimStart(s))

\* String.prototype.replace(pattern, ''), pattern a string: the first
\* occurrence goes, the rest stays.
RemoveFirst(s, p) ==
  LET at == {i \in 1..(Len(s) - Len(p) + 1) : SubSeq(s, i, i + Len(p) - 1) = p}
  IN  IF at = {} THEN s
      ELSE LET i == CHOOSE k \in at : \A l \in at : k <= l
           IN  SubSeq(s, 1, i - 1) \o SubSeq(s, i + Len(p), Len(s))

\* String.prototype.split(' ')
RECURSIVE Split(_, _)
Split(s, piece) ==
  IF s = << >> THEN << piece >>
  ELSE IF Head(s) = Space THEN << piece >> \o Split(Tail(s), << >>)
  ELSE Split(Tail(s), Append(piece, Head(s)))

LowerOf(c) == IF c = "D" THEN "d" ELSE c
UpperOf(c) == IF c = "d" THEN "D" ELSE c
ToLowerCase(s) == [i \in 1..Len(s) |-> LowerOf(s[i])]
ToUpperCase(s) == [i \in 1..Len(s) |-> UpperOf(s[i])]

Undefined == << "undefined" >>

Ping == << "!", "p", "i", "n", "g" >>
Ask == << "!", "a", "s", "k" >>
Roll == << "!", "r", "o", "l", "l" >>
\* `<@!${client.user.id}>`, the bot's id being B
MentionToken == << "<", "@", "!", "B", ">" >>
Hi == << "h", "i" >>

\* Math.random() * diceMax, and all that is computed from it, when diceMax
\* is no number
NaN == -1

Constructor == << "c", "o", "n", "s", "t", "r", "u", "c", "t", "o", "r" >>

\* DICE_SIZES[diceType]; 0 stands for undefined. DICE_SIZES is an object
\* literal, so a key it does not have is looked up in Object.prototype:
\* DICE_SIZES['constructor'] is the function Object, which is truthy and gives
\* NaN in arithmetic.
DICE_SIZES(t) ==
  CASE t = << "d", "4" >> -> 4
    [] t = << "d", "6" >> -> 6
    [] t = << "d", "8" >> -> 8
    [] t = << "d", "1", "0" >> -> 10
    [] t = << "d", "1", "2" >> -> 12
    [] t = << "d", "2", "0" >> -> 20
    [] t = << "d", "1", "0", "0" >> -> 100
    [] t = Constructor -> NaN
    [] OTHER -> 0

\* The contents of the messages that arrive.
Contents ==
  { Ping,
    Hi,
    Ask,
    Ask \o << Space >> \o Hi,
    MentionToken,
    MentionToken \o << Space >> \o Hi,
    Ask \o << Space >> \o MentionToken \o << Space >> \o Hi,
    Roll,
    Roll \o << Space, "d", "4" >>,
    Roll \o << Space, "D", "4" >>,
    Roll \o << Space, "d", "5" >>,
    Roll \o << Space >> \o Constructor }

Contains(s, p) == \E i \in 1..(Len(s) - Len(p) + 1) : SubSeq(s, i, i + Len(p) - 1) = p

\* message.mentions.has(client.user) is true when the content names the bot,
\* and may be true without (a reply to the bot, @everyone, the <@id> form).
Messages ==
  { m \in [content : Contents, mentions : BOOLEAN, bot : BOOLEAN] :
      Contains(m.content, MentionToken) => m.mentions }

(***************************************************************************)
(* The text of a chat completion is kept by its lengths only: lead and     *)
(* trail white space around a core that starts and ends with other         *)
(* characters. trim() leaves the core.                                     *)
(***************************************************************************)
\* The longest content the platform accepts in one message.
MessageLimit == 2000

Text(lead, core, trail) == [lead |-> lead, core |-> core, trail |-> trail]
TextLen(t) == t.lead + t.core + t.trail
TrimText(t) == Text(0, t.core, 0)

\* The texts a completion may carry.
Answers ==
  { Text(1, 0, 0), Text(1, 1, 1), Text(1, MessageLimit, 0),
    Text(0, MessageLimit + 1, 1) }

\* What message.reply / channel.send is called with.
\* len is the length of the text where the handler fixes it or the completion
\* gives it (0 for a GIF URL); value is the number rolled.
Reply(kind, stage, len) == [kind |-> kind, stage |-> stage, len |-> len, value |-> 0]
Pong == Reply("pong", "ping", 5)
InvalidDice == Reply("invalid", "roll", 84)
Digits(n) == IF n = NaN THEN 3 ELSE IF n < 10 THEN 1 ELSE IF n < 100 THEN 2 ELSE 3
\* `You rolled a ${diceType.toUpperCase()} and got: **${rollResult}**`
RollReply(dice, n) ==
  [kind |-> "roll", stage |-> "roll",
   len |-> 13 + Len(ToUpperCase(dice)) + 12 + Digits(n) + 2, value |-> n]
\* "Oops! Something went wrong with my brain." / "... with my response."
Apology(stage) == Reply("apology", stage, IF stage = "mention" THEN 41 ELSE 44)

(***************************************************************************)
(* The messageCreate handler (A and B; P has none).                        *)
(*   pc        "idle", "done", or the await the handler is suspended at    *)
(*   at        Date.now() when the message arrived                         *)
(*   accepted  the message passed the bot check and the cooldown           *)
(*   requests  calls of getOpenAIAnswer; gifRequests: requests for a GIF   *)
(*   results   how each of these calls ended, in order                     *)
(*   replies   what was handed to message.reply / channel.send, in order   *)
(*   uncaught  the error with which the handler's promise rejected         *)
(***************************************************************************)
Cooldown == 5000

IdleHandler ==
  [pc |-> "idle", msg |-> [content |-> << >>, mentions |-> FALSE, bot |-> FALSE],
   at |-> 0, accepted |-> FALSE, requests |-> 0, results |-> << >>,
   replies |-> << >>, dice |-> << >>, gifRequests |-> 0, uncaught |-> "none"]

Say(r, reply) == [r EXCEPT !.replies = Append(@, reply)]

\* if (message.content.startsWith('!roll')) ... up to the next await
FromRoll(r) ==
  IF StartsWith(r.msg.content, Roll)
  THEN LET args == Split(r.msg.content, << >>)
           diceType == IF Len(args) >= 2 THEN ToLowerCase(args[2]) ELSE Undefined
       IN  IF DICE_SIZES(diceType) = 0
           THEN [Say(r, InvalidDice) EXCEPT !.pc = "await_invalid"]
           ELSE [r EXCEPT !.pc = "await_gif", !.dice = diceType,
                          !.gifRequests = @ + 1]
  ELSE [r EXCEPT !.pc = "done"]

\* if (message.content.startsWith('!ask')) ... up to the next await
FromAsk(r) ==
  IF StartsWith(r.msg.content, Ask)
  THEN [r EXCEPT !.pc = "await_ask", !.requests = @ + 1]
  ELSE FromRoll(r)

\* if (message.mentions.has(client.user)) ... up to the next await
FromMention(r) ==
  IF r.msg.mentions /\ Trim(RemoveFirst(r.msg.content, MentionToken)) # << >>
  THEN [r EXCEPT !.pc = "await_mention", !.requests = @ + 1]
  ELSE FromAsk(r)

\* The statements after the try/catch around a completion
AfterAnswer(r, stage) == IF stage = "mention" THEN FromAsk(r) ELSE FromRoll(r)

StageOf(pc) == IF pc = "await_mention" THEN "mention" ELSE "ask"

\* (mutant) no catch around the await: the error leaves the handler
OnAnswerError_Rethrown(r, stage) ==
  [r EXCEPT !.pc = "done", !.uncaught = "CompletionError"]

\* catch (error) { message.reply("Oops! ...") } and on with the handler
OnAnswerError(r, stage) == AfterAnswer(Say(r, Apology(stage)), stage)

\* const answer = await getOpenAIAnswer(question); message.reply(answer)
\* with getOpenAIAnswer returning the trimmed text
OnAnswer(r, stage, text) ==
  AfterAnswer(Say(r, Reply("answer", stage, TextLen(TrimText(text)))), stage)

\* Math.floor(Math.random() * diceMax) + 1: any of 1..diceMax
RollResults(diceMax) == IF diceMax = NaN THEN {NaN} ELSE 1..diceMax

\* Roll the dice and reply: rollResult = Math.floor(Math.random() * diceMax) + 1
Rolled(r, n) == [Say(r, RollReply(r.dice, n)) EXCEPT !.pc = "await_roll"]

\* (mutant) the ping branch is gone: the message goes on to the other commands
FromPing_Skipped(r) == FromMention(r)

\* if (message.content === '!ping') return message.reply('Pong!')
FromPing(r) ==
  IF r.msg.content = Ping
  THEN [Say(r, Pong) EXCEPT !.pc = "await_pong"]
  ELSE FromMention(r)

\* (mutant) no message is ever inside the cooldown
InCooldown_Never(t, last) == FALSE

\* now - lastCommandTimestamp < 5000
InCooldown(t, last) == t - last < Cooldown

\* A message arrives: the handler runs up to its first await, or to its end.
messageCreate(h, m) ==
  /\ Listening("messageCreate")
  /\ handlers[h].pc = "idle"
  /\ LET r0 == [IdleHandler EXCEPT !.msg = m, !.at = now]
         r1 == [r0 EXCEPT !.accepted = TRUE]
     IN  IF m.bot \/ InCooldown(now, lastCommandTimestamp)
         THEN /\ handlers' = [handlers EXCEPT ![h] = [r0 EXCEPT !.pc = "done"]]
              /\ UNCHANGED lastCommandTimestamp
         ELSE /\ lastCommandTimestamp' = now
              /\ handlers' = [handlers EXCEPT ![h] = FromPing(r1)]
  /\ UNCHANGED <<rev, poll, now, ticks, varsInvites, varsProcess>>

AwaitsAnswer(h) == handlers[h].pc \in {"await_mention", "await_ask"}

\* getOpenAIAnswer resolves with the trimmed text of the first choice.
getOpenAIAnswerOk(h, text) ==
  /\ boot.pc = "running"
  /\ AwaitsAnswer(h)
  /\ LET r == handlers[h]
         stage == StageOf(r.pc)
         r1 == [r EXCEPT !.results = Append(@, [stage |-> stage, ok |-> TRUE])]
     IN  handlers' = [handlers EXCEPT ![h] = OnAnswer(r1, stage, text)]
  /\ UNCHANGED <<rev, poll, now, ticks, lastCommandTimestamp, varsInvites, varsProcess>>

\* getOpenAIAnswer rejects: the request failed, or the response has no first
\* choice to read; its catch logs the error and throws it again.
getOpenAIAnswerFail(h) ==
  /\ boot.pc = "running"
  /\ AwaitsAnswer(h)
  /\ LET r == handlers[h]
         stage == StageOf(r.pc)
         r1 == [r EXCEPT !.results = Append(@, [stage |-> stage, ok |-> FALSE])]
     IN  handlers' = [handlers EXCEPT ![h] = OnAnswerError(r1, stage)]
  /\ UNCHANGED <<rev, poll, now, ticks, lastCommandTimestamp, varsInvites, varsProcess>>

\* An awaited message.reply settles; a rejection leaves the handler.
ReplySettles(h, ok) ==
  /\ boot.pc = "running"
  /\ handlers[h].pc \in {"await_pong", "await_invalid", "await_roll"}
  /\ handlers' = [handlers EXCEPT ![h] =
       IF ok THEN [@ EXCEPT !.pc = "done"]
       ELSE [@ EXCEPT !.pc = "done", !.uncaught = "SendError"]]
  /\ UNCHANGED <<rev, poll, now, ticks, lastCommandTimestamp, varsInvites, varsProcess>>

\* axios.get of the GIF settles: on success the URL is sent to the channel,
\* on failure (or a response without the URL) the error is logged.
GifSettles(h, ok) ==
  /\ boot.pc = "running"
  /\ handlers[h].pc = "await_gif"
  /\ IF ok
     THEN handlers' = [handlers EXCEPT ![h] =
            [Say(@, Reply("gif", "roll", 0)) EXCEPT !.pc = "await_gif_send"]]
     ELSE \E n \in RollResults(DICE_SIZES(handlers[h].dice)) :
            handlers' = [handlers EXCEPT ![h] = Rolled(@, n)]
  /\ UNCHANGED <<rev, poll, now, ticks, lastCommandTimestamp, varsInvites, varsProcess>>

\* message.channel.send(gifUrl) settles, inside the same try.
GifSendSettles(h) ==
  /\ boot.pc = "running"
  /\ handlers[h].pc = "await_gif_send"
  /\ \E n \in RollResults(DICE_SIZES(handlers[h].dice)) :
       handlers' = [handlers EXCEPT ![h] = Rolled(@, n)]
  /\ UNCHANGED <<rev, poll, now, ticks, lastCommandTimestamp, varsInvites, varsProcess>>

\* The handler has ended.
HandlerRetire(h) ==
  /\ boot.pc = "running"
  /\ handlers[h].pc = "done"
  /\ handlers' = [handlers EXCEPT ![h] = IdleHandler]
  /\ UNCHANGED <<rev, poll, now, ticks, lastCommandTimestamp, varsInvites, varsProcess>>

\* Date.now() moves on.
Tick(d) ==
  /\ ticks < MaxTicks
  /\ now' = now + d
  /\ ticks' = ticks + 1
  /\ UNCHANGED <<rev, poll, handlers, lastCommandTimestamp, varsInvites, varsProcess>>

(***************************************************************************)
(* fetchFreeGames: the poll of the free games feed. A and B run it from a  *)
(* daily cron job, P from its ready callback and a 24 hour interval.       *)
(*   pc        "idle" | "feed" (awaiting the request) | "channel" (A, B:   *)
(*             awaiting client.channels.fetch) | "send" (P: awaiting       *)
(*             channel.send) | "floating" (A, B: returned, the send it did *)
(*             not await still in flight) | "done"                         *)
(*   n         which poll of the process this is                           *)
(*   requests  requests made to the feed by this poll                      *)
(*   feed      what the feed answered                                      *)
(*   sent      messages handed to channel.send; games: game lines in them  *)
(*   logged    the levels this poll logged at                              *)
(*   escaped   an error left fetchFreeGames                                *)
(*   unhandled the promise of the send nobody awaits rejected              *)
(***************************************************************************)
MaxPolls == 3

\* What the request ends with: a failure, or a response whose body is
\*   "unparseable"  not JSON
\*   "object"       JSON, but not an array
\*   "array"        an array of games games
Feed(kind, games) == [kind |-> kind, games |-> games]
NoFeed == Feed("none", 0)
Feeds ==
  { Feed("error", 0), Feed("unparseable", 0), Feed("object", 0),
    Feed("array", 0), Feed("array", 2) }

IdlePoll ==
  [pc |-> "idle", n |-> 0, requests |-> 0, feed |-> NoFeed, sent |-> 0,
   games |-> 0, logged |-> {}, escaped |-> FALSE, unhandled |-> FALSE]

PollLog(q, level) == [q EXCEPT !.pc = "done", !.logged = @ \cup {level}]

\* The call up to its first await: the request to the feed is made.
fetchFreeGames ==
  /\ boot.pc = "running"
  /\ rev = "P" \/ "freeGamesCron" \in boot.timers
  /\ poll.pc = "idle"
  /\ poll.n < MaxPolls
  /\ poll' = [IdlePoll EXCEPT !.pc = "feed", !.n = poll.n + 1, !.requests = 1]
  /\ UNCHANGED <<rev, varsInvites, varsMessages, varsProcess>>

\* P, after the request: Array.isArray, length, the channel of the cache.
\* axios rejects when the request fails and leaves a body that is not JSON
\* as the string it is.
ValidatedFeed(q, feed, chan) ==
  IF feed.kind = "error" THEN PollLog(q, "error")
  ELSE IF feed.kind # "array" \/ feed.games = 0 THEN PollLog(q, "warn")
  ELSE IF ~chan THEN PollLog(q, "warn")
  ELSE [q EXCEPT !.pc = "send", !.sent = @ + 1, !.games = feed.games]

\* A and B, after the request: JSON.parse(data), then freeGames.map(...).
\* JSON.parse throws on a body that is not JSON, and an object has no map:
\* both land in the catch. An empty array maps to an empty list.
ParsedFeed(q, feed) ==
  IF feed.kind # "array" THEN PollLog(q, "error")
  ELSE [q EXCEPT !.pc = "channel", !.games = feed.games]

\* The request to the feed settles.
FeedSettles(feed, chan) ==
  /\ boot.pc = "running"
  /\ poll.pc = "feed"
  /\ LET q == [poll EXCEPT !.feed = feed]
     IN  poll' = IF rev = "P" THEN ValidatedFeed(q, feed, chan)
                 ELSE ParsedFeed(q, feed)
  /\ UNCHANGED <<rev, varsInvites, varsMessages, varsProcess>>

\* A and B: await client.channels.fetch(id) settles, with the channel, with
\* null, or rejected; channel.send(...) follows without an await, and
\* null.send throws into the catch.
ChannelFetchSettles(out) ==
  /\ boot.pc = "running"
  /\ poll.pc = "channel"
  /\ poll' = IF out = "channel"
             THEN [poll EXCEPT !.pc = "floating", !.sent = @ + 1]
             ELSE PollLog(poll, "error")
  /\ UNCHANGED <<rev, varsInvites, varsMessages, varsProcess>>

\* channel.send settles. P awaits it inside its try; in A and B the function
\* has returned and a rejection has no handler.
PollSendSettles(ok) ==
  /\ boot.pc = "running"
  /\ poll.pc \in {"send", "floating"}
  /\ poll' = IF ok THEN [poll EXCEPT !.pc = "done"]
             ELSE IF poll.pc = "send" THEN PollLog(poll, "error")
             ELSE [poll EXCEPT !.pc = "done", !.unhandled = TRUE]
  /\ UNCHANGED <<rev, varsInvites, varsMessages, varsProcess>>

\* The poll is over; the next one is the next scheduled one.
PollRetire ==
  /\ boot.pc = "running"
  /\ poll.pc = "done"
  /\ poll' = [IdlePoll EXCEPT !.n = poll.n]
  /\ UNCHANGED <<rev, varsInvites, varsMessages, varsProcess>>

(***************************************************************************)
(* The process: the top-level script of each revision, then the event loop *)
(* that invokes the listeners and timer callbacks the script registered.   *)
(*   pc  "start" | "register" | "login" | "running" | "exited"             *)
(***************************************************************************)
EnvVars ==
  {"DISCORD_TOKEN", "EPICGAMESFREE_KEY", "OPENAI_API_KEY", "EPIC_GAMES_API_KEY",
   "GIPHY_API_KEY", "GAME_CHANNEL_ID", "STAFF_CHANNEL_ID"}

\* The variables a revision reads for its token, API keys and channels.
ConfigOf(r) ==
  CASE r = "P" -> {"DISCORD_TOKEN", "EPICGAMESFREE_KEY"}
    [] r = "A" -> {"DISCORD_TOKEN", "OPENAI_API_KEY", "EPIC_GAMES_API_KEY",
                   "GIPHY_API_KEY", "GAME_CHANNEL_ID"}
    [] r = "B" -> {"DISCORD_TOKEN", "OPENAI_API_KEY", "EPIC_GAMES_API_KEY",
                   "GIPHY_API_KEY", "GAME_CHANNEL_ID", "STAFF_CHANNEL_ID"}

\* client.on / client.once made by the top-level script
ListenersOf(r) ==
  CASE r = "P" -> {"ready", "guildMemberAdd", "guildMemberRemove"}
    [] r = "A" -> {"messageCreate", "guildMemberAdd", "guildMemberRemove"}
    [] r = "B" -> {"messageCreate", "guildMemberAdd", "guildMemberRemove",
                   "ready", "disconnect"}

\* setInterval / cron.schedule made by the top-level script
TimersOf(r) == IF r = "P" THEN {} ELSE {"inviteTimer", "freeGamesCron"}

\* process.on('SIGINT' / 'SIGTERM', ...) made by the top-level script
SignalHandlersOf(r) == IF r = "P" THEN {} ELSE {"SIGINT", "SIGTERM"}

\*   readyEmitted  how often the gateway emitted ready
\*   readyRuns     how often the ready callback of P ran; immediatePolls: the
\*                 calls of fetchFreeGames it made; intervals: the 24 hour
\*                 timers it set
\*   signal     the termination signal the process got ("none" before)
\*   destroyed  client.destroy() was called; repliesAtDestroy: how many
\*              replies the handlers in flight had handed over by then
BootStart ==
  [pc |-> "start", exitCode |-> 0, loginCalled |-> FALSE, loginPending |-> FALSE,
   loggedIn |-> FALSE, listeners |-> {}, timers |-> {}, invoked |-> {},
   signalHandlers |-> {}, signal |-> "none", destroyed |-> FALSE,
   repliesAtDestroy |-> 0,
   readyEmitted |-> 0, readyRuns |-> 0, immediatePolls |-> 0, intervals |-> 0]

\* The process as the handler specifications find it: script run, logged in.
Booted(r) ==
  [BootStart EXCEPT !.pc = "running", !.loginCalled = TRUE, !.loggedIn = TRUE,
                    !.listeners = ListenersOf(r), !.timers = TimersOf(r),
                    !.signalHandlers = SignalHandlersOf(r)]

Exit(b, code) == [b EXCEPT !.pc = "exited", !.exitCode = code]

\* The variables the script checks before it goes on, in the order it checks.
CheckedOf(r) == IF r = "P" THEN << "DISCORD_TOKEN", "EPICGAMESFREE_KEY" >> ELSE << >>

\* if (!token) { ...; process.exit(1) }  if (!epicGamesApiKey) { ...; process.exit(1) }
CheckEnvironment ==
  /\ boot.pc = "start"
  /\ boot' = IF \E i \in 1..Len(CheckedOf(rev)) : CheckedOf(rev)[i] \notin env
             THEN Exit(boot, 1)
             ELSE [boot EXCEPT !.pc = "register"]
  /\ UNCHANGED <<rev, poll, env, varsInvites, varsMessages>>

\* new Client, setInterval, client.on ..., cron.schedule
Register ==
  /\ boot.pc = "register"
  /\ boot' = [boot EXCEPT !.pc = "login", !.listeners = ListenersOf(rev),
                          !.timers = TimersOf(rev),
                          !.signalHandlers = SignalHandlersOf(rev)]
  /\ UNCHANGED <<rev, poll, env, varsInvites, varsMessages>>

\* A rejected login: P catches it and logs it; A and B do not, and the
\* rejection nobody handles ends the process (Node 16 or higher) with code 1.
LoginRejected(b) ==
  IF rev = "P" THEN [b EXCEPT !.loginPending = FALSE]
  ELSE Exit([b EXCEPT !.loginPending = FALSE], 1)

\* client.login(token): the last statement; the event loop runs from here on.
\* Without a token login rejects at once.
Login ==
  /\ boot.pc = "login"
  /\ LET b == [boot EXCEPT !.pc = "running", !.loginCalled = TRUE,
                           !.loginPending = TRUE]
     IN  boot' = IF "DISCORD_TOKEN" \in env THEN b ELSE LoginRejected(b)
  /\ UNCHANGED <<rev, poll, env, varsInvites, varsMessages>>

\* The gateway answers the login.
LoginSettles(ok) ==
  /\ boot.pc = "running" /\ boot.loginPending
  /\ boot' = IF ok THEN [boot EXCEPT !.loginPending = FALSE, !.loggedIn = TRUE]
             ELSE LoginRejected(boot)
  /\ UNCHANGED <<rev, poll, env, varsInvites, varsMessages>>

\* How often the gateway emits ready: at the login, and again after
\* reconnects.
MaxReady == 2

\* (mutant) client.on: the listener stays for the next ready
OnceListeners_On(listeners, ev) == listeners

\* client.once: the listener is taken off when the event is emitted
OnceListeners(listeners, ev) == listeners \ {ev}

\* The ready callback of P: fetchFreeGames() now, and setInterval for every
\* 24 hours from now on.
ReadyOnce(b) ==
  [b EXCEPT !.listeners = OnceListeners(@, "ready"),
            !.readyRuns = @ + 1,
            !.immediatePolls = @ + 1,
            !.intervals = @ + 1,
            !.timers = @ \cup {"freeGamesInterval"},
            !.invoked = @ \cup {"ready", "fetchFreeGames"}]

\* The gateway emits an event and the client invokes its listener, if it has
\* one. The ready listener of P is a once listener.
Emit(ev) ==
  /\ boot.pc = "running" /\ boot.loggedIn
  /\ ev \in boot.listeners \/ ev = "ready"
  /\ ev = "ready" => boot.readyEmitted < MaxReady
  /\ LET b == IF ev = "ready" THEN [boot EXCEPT !.readyEmitted = @ + 1] ELSE boot
     IN  boot' = IF ev \notin boot.listeners THEN b
                 ELSE IF rev = "P" /\ ev = "ready" THEN ReadyOnce(b)
                 ELSE [b EXCEPT !.invoked = @ \cup {ev}]
  /\ UNCHANGED <<rev, poll, env, varsInvites, varsMessages>>

\* A timer the process holds fires and its callback is invoked.
TimerFires(tm) ==
  /\ boot.pc = "running"
  /\ tm \in boot.timers
  /\ boot' = [boot EXCEPT !.invoked = @ \cup
                 {IF tm = "inviteTimer" THEN tm ELSE "fetchFreeGames"}]
  /\ UNCHANGED <<rev, poll, env, varsInvites, varsMessages>>

\* The replies handed to message.reply / channel.send by the handlers in hs.
RECURSIVE RepliesHanded(_)
RepliesHanded(hs) ==
  IF hs = {} THEN 0
  ELSE LET h == CHOOSE x \in hs : TRUE
       IN  Len(handlers[h].replies) + RepliesHanded(hs \ {h})

\* The exit status of a process a signal ended: 128 + the signal's number.
KilledBy(sig) == 128 + (IF sig = "SIGINT" THEN 2 ELSE 15)

\* logger.info(...); client.destroy(); process.exit(0)
\* (process.exit() of A exits with process.exitCode, which nothing sets: 0)
Shutdown(b, replies) ==
  Exit([b EXCEPT !.destroyed = TRUE, !.repliesAtDestroy = replies], 0)

\* The process gets SIGINT or SIGTERM: its listener for the signal runs, or,
\* with no listener, the signal ends the process.
Signal(sig) ==
  /\ boot.pc \in {"login", "running"}
  /\ LET b == [boot EXCEPT !.signal = sig]
     IN  boot' = IF sig \in boot.signalHandlers
                 THEN Shutdown(b, RepliesHanded(DOMAIN handlers))
                 ELSE Exit(b, KilledBy(sig))
  /\ UNCHANGED <<rev, poll, env, varsInvites, varsMessages>>

InitProcess ==
  /\ rev \in Revisions
  /\ env \in SUBSET EnvVars
  /\ boot = BootStart
  /\ handlers = [h \in Handlers |-> IdleHandler]
  /\ now = Cooldown
  /\ ticks = 0
  /\ lastCommandTimestamp = 0
  /\ join = IdleJoin
  /\ timer = IdleTimer
  /\ nextFid = 1
  /\ lastOk = [g \in Guilds |-> NoFetch]
  /\ poll = IdlePoll

NextProcess ==
  \/ CheckEnvironment
  \/ Register
  \/ Login
  \/ \E ok \in BOOLEAN : LoginSettles(ok)
  \/ \E ev \in {"ready", "disconnect", "messageCreate", "guildMemberAdd",
                "guildMemberRemove"} : Emit(ev)
  \/ \E tm \in {"inviteTimer", "freeGamesCron", "freeGamesInterval"} : TimerFires(tm)

SpecProcess == InitProcess /\ [][NextProcess]_vars

(***************************************************************************)
(* The message specification. Date.now() is far above the cooldown when    *)
(* the process starts; the clock starts at the cooldown here.              *)
(***************************************************************************)
InitMessages ==
  /\ rev \in Revisions
  /\ handlers = [h \in Handlers |-> IdleHandler]
  /\ now = Cooldown
  /\ ticks = 0
  /\ lastCommandTimestamp = 0
  /\ env = EnvVars
  /\ boot = Booted(rev)
  /\ join = IdleJoin
  /\ timer = IdleTimer
  /\ nextFid = 1
  /\ lastOk = [g \in Guilds |-> NoFetch]
  /\ poll = IdlePoll

NextMessages ==
  \/ \E h \in Handlers, m \in Messages : messageCreate(h, m)
  \/ \E h \in Handlers, text \in Answers : getOpenAIAnswerOk(h, text)
  \/ \E h \in Handlers : getOpenAIAnswerFail(h)
  \/ \E h \in Handlers, ok \in BOOLEAN : ReplySettles(h, ok)
  \/ \E h \in Handlers, ok \in BOOLEAN : GifSettles(h, ok)
  \/ \E h \in Handlers : GifSendSettles(h)
  \/ \E h \in Handlers : HandlerRetire(h)
  \/ \E d \in {1, Cooldown - 1} : Tick(d)

SpecMessages == InitMessages /\ [][NextMessages]_vars

(***************************************************************************)
(* The member join and invite refresh specification.                       *)
(***************************************************************************)
InitInvites ==
  /\ rev \in Revisions
  /\ handlers = [h \in Handlers |-> IdleHandler]
  /\ now = Cooldown
  /\ ticks = 0
  /\ lastCommandTimestamp = 0
  /\ env = EnvVars
  /\ boot = Booted(rev)
  /\ join = IdleJoin
  /\ timer = IdleTimer
  /\ nextFid = 1
  /\ lastOk = [g \in Guilds |-> NoFetch]
  /\ poll = IdlePoll

NextInvites ==
  \/ \E g \in Guilds, m \in Users : JoinStart(g, m, TRUE)
  \/ \E g \in Guilds, m \in Users : JoinStart(g, m, FALSE)
  \/ \E s \in Snapshots : JoinFetchOk(s)
  \/ JoinFetchFail
  \/ JoinRetire
  \/ TimerTick
  \/ \E s \in Snapshots : fetchInvitesOk(s)
  \/ fetchInvitesFail

SpecInvites == InitInvites /\ [][NextInvites]_vars

(***************************************************************************)
(* The cooldown specification: two messageCreate handlers in flight at     *)
(* once, for a command that ends at once and one that awaits a completion. *)
(***************************************************************************)
ConcurrentHandlers == {"h1", "h2"}

CooldownMessages ==
  { m \in Messages : m.content \in {Ping, Ask \o << Space >> \o Hi} /\ ~m.mentions }

InitCooldown ==
  /\ rev \in Revisions
  /\ handlers = [h \in ConcurrentHandlers |-> IdleHandler]
  /\ now = Cooldown
  /\ ticks = 0
  /\ lastCommandTimestamp = 0
  /\ env = EnvVars
  /\ boot = Booted(rev)
  /\ join = IdleJoin
  /\ timer = IdleTimer
  /\ nextFid = 1
  /\ lastOk = [g \in Guilds |-> NoFetch]
  /\ poll = IdlePoll

NextCooldown ==
  \/ \E h \in ConcurrentHandlers, m \in CooldownMessages : messageCreate(h, m)
  \/ \E h \in ConcurrentHandlers, text \in Answers : getOpenAIAnswerOk(h, text)
  \/ \E h \in ConcurrentHandlers : getOpenAIAnswerFail(h)
  \/ \E h \in ConcurrentHandlers, ok \in BOOLEAN : ReplySettles(h, ok)
  \/ \E h \in ConcurrentHandlers : HandlerRetire(h)
  \/ \E d \in {1, Cooldown - 1} : Tick(d)

SpecCooldown == InitCooldown /\ [][NextCooldown]_vars

(***************************************************************************)
(* The shutdown specification: the message handlers and the signals.       *)
(***************************************************************************)
NextShutdown ==
  \/ NextMessages
  \/ \E sig \in {"SIGINT", "SIGTERM"} : Signal(sig)

SpecShutdown == InitMessages /\ [][NextShutdown]_vars

(***************************************************************************)
(* The free games specification.                                           *)
(***************************************************************************)
InitGames ==
  /\ rev \in Revisions
  /\ handlers = [h \in Handlers |-> IdleHandler]
  /\ now = Cooldown
  /\ ticks = 0
  /\ lastCommandTimestamp = 0
  /\ env = EnvVars
  /\ boot = Booted(rev)
  /\ join = IdleJoin
  /\ timer = IdleTimer
  /\ nextFid = 1
  /\ lastOk = [g \in Guilds |-> NoFetch]
  /\ poll = IdlePoll

NextGames ==
  \/ fetchFreeGames
  \/ \E feed \in Feeds, chan \in BOOLEAN : FeedSettles(feed, chan)
  \/ \E out \in {"channel", "null", "rejected"} : ChannelFetchSettles(out)
  \/ \E ok \in BOOLEAN : PollSendSettles(ok)
  \/ PollRetire

SpecGames == InitGames /\ [][NextGames]_vars

(***************************************************************************)
(* What the claims speak of.                                               *)
(***************************************************************************)
\* An entry that counts for the attribution: used, and with an inviter.
Used(e) == e.uses > 0 /\ e.inviter # NoInviter

HasUsed(invites) == \E i \in 1..Len(invites) : Used(invites[i])

\* The first such entry in stored order.
FirstUsed(invites) ==
  CHOOSE i \in 1..Len(invites) :
    /\ Used(invites[i])
    /\ \A k \in 1..(i - 1) : ~Used(invites[k])

\* The handler ended after an attribution made on a list it fetched.
AttributedOnFetch == join.pc = "done" /\ join.attributed /\ join.fetchOk

\* C1: for every fetched invite list with an entry that has uses > 0 and an
\* inviter, the attribution made on a member join is the tag of the inviter of
\* the first such entry in stored order, whoever joins and whichever entry has
\* the highest uses.
C1_FirstUsedInviter ==
  (AttributedOnFetch /\ HasUsed(join.invites))
    => join.invitedBy = UserTag(join.invites[FirstUsed(join.invites)].inviter)

\* C2: the attribution is "Unknown" whenever the fetched list has no entry with
\* uses > 0 and an inviter (empty, all uses 0, or no inviter on the used ones),
\* and an entry with uses > 0 and no inviter raises no error.
C2_UnknownWithoutError ==
  (AttributedOnFetch /\ ~HasUsed(join.invites))
    => /\ join.invitedBy = Unknown
       /\ "TypeError:inviter" \notin join.raised

\* C3: when the fetch made for a member join fails, the attribution is
\* "Unknown", the failure does not leave the handler, and the welcome message
\* is sent with "Invited By: Unknown" (the welcome channel being there).
C3_FetchFailureSwallowed ==
  (join.pc = "done" /\ join.fetchFailed /\ join.channel)
    => /\ join.attributed /\ join.invitedBy = Unknown
       /\ join.outcome = "sent" /\ join.sentInvitedBy = Unknown

\* The fetch an attribution rests on if failing fetches change nothing: the
\* most recent fetch for the guild that resolved, the handler's own included.
Basis == IF join.fetchOk THEN Fetched(join.invites, join.fid) ELSE join.prev

\* The lookup of the running revision (A has none: its inviter is a constant).
Lookup(invites, member) ==
  IF rev = "A" THEN Unknown ELSE invitedByOf(rev, invites, member)

\* C4: a failing refresh changes nothing: the invites an attribution is made
\* on are those of the most recent fetch for the guild that succeeded, and the
\* attribution is what it was before the failing fetch.
C4_FailingRefreshKeepsSnapshot ==
  (join.pc = "done" /\ join.attributed /\ Basis.ok)
    => join.invitedBy = Lookup(Basis.invites, join.member)

\* C5: for a guild with no earlier successful fetch, the attribution of a
\* member join makes exactly one fetch for the guild before the result is there
\* and the welcome message is sent.
C5_ExactlyOneFetch ==
  (join.pc = "done" /\ join.attributed /\ ~join.prev.ok) => join.fetches = 1

\* C6: whatever refreshes overlap the handler's fetch, the list an attribution
\* reads is wholly the result of one fetch, the handler's own.
C6_OneFetchOnly ==
  join.fetchOk => \A i \in 1..Len(join.invites) : join.invites[i].fid = join.fid

\* A refresh for the same guild, asked after the handler's fetch, resolved
\* before it with another list, and the timer is still at work.
C6_Witness ==
  /\ AttributedOnFetch
  /\ Len(join.invites) >= 2
  /\ join.prev.ok /\ join.prev.fid > join.fid
  /\ Len(join.prev.invites) >= 1
  /\ timer.pc = "fetch"

\* Invite data never crosses guilds, state part: what the handler reads was
\* fetched for the guild of the member, so was every list fetched last, and the
\* attribution is the lookup on the list of that guild.
C7_OwnGuildOnly ==
  /\ join.fetches > 0 => join.fetchGuild = join.guild
  /\ join.fetchOk =>
       /\ \A i \in 1..Len(join.invites) : join.invites[i].guild = join.guild
       /\ join.invitedBy = Lookup(join.invites, join.member)
  /\ \A g \in Guilds :
       \A i \in 1..Len(lastOk[g].invites) : lastOk[g].invites[i].guild = g

\* ... step part: the data of a guild changes only when a fetch for that guild,
\* made by the handler of a member of that guild or by the timer, resolves.
C7_OtherGuildsUnchanged ==
  \A g \in Guilds :
    lastOk'[g] # lastOk[g] =>
      \/ join.pc = "fetch" /\ join.guild = g /\ join'.pc = "done"
      \/ timer.pc = "fetch" /\ GuildOrder[timer.idx] = g /\ timer' # timer

\* C7: invite data is never shared across guilds: a refresh or a member join
\* in one guild leaves the data of every other guild as it was, and the
\* attribution of a join depends only on the invites fetched for its guild.
C7_NoCrossGuildData == []C7_OwnGuildOnly /\ [][C7_OtherGuildsUnchanged]_vars

\* A member of the second guild was attributed while the first guild has data.
C7_Witness ==
  /\ AttributedOnFetch /\ join.guild = "g2" /\ HasUsed(join.invites)
  /\ lastOk["g1"].ok /\ lastOk["g1"].invites # << >>
  /\ lastOk["g2"].ok

\* C8: whenever a chat completion asked for a message (a mention with a
\* question, or the !ask prefix) fails, the fixed apology of that request is
\* replied and the failure does not leave the handler.
C8_ApologyOnFailure ==
  \A h \in Handlers :
    LET r == handlers[h]
    IN  /\ r.uncaught # "CompletionError"
        /\ \A i \in 1..Len(r.results) :
             ~r.results[i].ok =>
               \E k \in 1..Len(r.replies) :
                 r.replies[k] = Apology(r.results[i].stage)
        /\ Cardinality({k \in 1..Len(r.replies) : r.replies[k].kind = "apology"})
             = Cardinality({i \in 1..Len(r.results) : ~r.results[i].ok})

\* A message that mentions the bot and starts with !ask ended after both of
\* its completions failed.
C8_Witness ==
  \E h \in Handlers :
    /\ handlers[h].pc = "done"
    /\ Len(handlers[h].results) = 2
    /\ \A i \in 1..2 : ~handlers[h].results[i].ok

\* C9: no reply built from a completion is longer than the platform's message
\* limit, whatever length the endpoint returns.
C9_AnswerWithinLimit ==
  \A h \in Handlers :
    \A k \in 1..Len(handlers[h].replies) :
      handlers[h].replies[k].kind = "answer"
        => handlers[h].replies[k].len <= MessageLimit

\* C10: with any configuration variable of the revision absent, the process
\* exits with a code other than 0 before it is logged in and before any
\* listener or timer callback runs.
C10_ExitOnMissingConfig ==
  (ConfigOf(rev) \ env # {})
    => /\ ~boot.loggedIn
       /\ boot.invoked = {}
       /\ boot.pc = "exited" => boot.exitCode # 0

\* C11: when the channel a notification goes to cannot be found, the handler
\* logs a warning and skips the send: nothing is sent on the missing channel
\* and no error is raised.
C11_MissingChannelSkipped ==
  (join.pc = "done" /\ ~join.channel)
    => /\ join.outcome = "skipped"
       /\ join.raised = {}

\* C12: when the request to the free games feed fails, or its response is not
\* parseable, not an array, or an empty array, the poll is dropped: no message
\* is sent, the feed is asked once only, and no error leaves fetchFreeGames.
C12_MalformedFeedDropped ==
  (poll.feed.kind \in {"error", "unparseable", "object"}
     \/ (poll.feed.kind = "array" /\ poll.feed.games = 0))
    => /\ poll.sent = 0
       /\ poll.requests = 1
       /\ ~poll.escaped /\ ~poll.unhandled

C14_NoUncaughtError ==
  /\ \A h \in Handlers : handlers[h].uncaught = "none"
  /\ join.outcome # "uncaught"
  /\ ~poll.escaped /\ ~poll.unhandled

\* C15: on SIGINT or SIGTERM the client is destroyed before the process
\* exits, the exit is a success exit, and no handler hands over a message after
\* the client was destroyed.
C15_GracefulShutdown ==
  boot.signal # "none"
    => /\ boot.destroyed
       /\ boot.pc = "exited" /\ boot.exitCode = 0
       /\ RepliesHanded(DOMAIN handlers) = boot.repliesAtDestroy

\* C16: a tick of the invite timer calls the refresh for every guild of the
\* cache, one at a time and in order; a refresh that fails does not keep the
\* remaining guilds of the tick from theirs, and is not made again in the tick.
C16_EveryGuildOncePerTick ==
  /\ Len(timer.calls) <= Len(GuildOrder)
  /\ \A i \in 1..Len(timer.calls) : timer.calls[i].guild = GuildOrder[i]
  /\ timer.pc = "fetch" => Len(timer.calls) = timer.idx - 1
  /\ (timer.pc = "idle" /\ timer.calls # << >>)
       => Len(timer.calls) = Len(GuildOrder)

\* A tick has ended whose first refresh failed and whose second did not.
C16_Witness ==
  /\ timer.pc = "idle"
  /\ Len(timer.calls) = Len(GuildOrder)
  /\ ~timer.calls[1].ok
  /\ timer.calls[2].ok

\* The handlers that have a message, and those whose message passed the gate.
Arrived == {h \in DOMAIN handlers : handlers[h].pc # "idle"}
Accepted == {h \in Arrived : handlers[h].accepted}

\* C17, state part: two messages that passed the gate arrived at least 5000 ms
\* apart, and lastCommandTimestamp is the arrival of the last of them; a
\* message that did not pass is of a bot or arrived inside the cooldown, and
\* got no reply and no external call.
C17_AcceptedFarApart ==
  /\ \A h \in Accepted :
       \/ handlers[h].at = lastCommandTimestamp
       \/ lastCommandTimestamp - handlers[h].at >= Cooldown
  /\ \A h1 \in Accepted : \A h2 \in Accepted \ {h1} :
       \/ handlers[h1].at - handlers[h2].at >= Cooldown
       \/ handlers[h2].at - handlers[h1].at >= Cooldown
  /\ \A h \in Arrived \ Accepted :
       /\ handlers[h].msg.bot \/ handlers[h].at - lastCommandTimestamp < Cooldown
       /\ handlers[h].pc = "done"
       /\ handlers[h].replies = << >> /\ handlers[h].requests = 0

\* ... step part: lastCommandTimestamp changes only when a message passes the
\* gate, to the arrival of that message; a message of a bot, and one inside
\* the cooldown, leave it as it is.
C17_StampOnlyOnAccept ==
  /\ lastCommandTimestamp' # lastCommandTimestamp =>
       \E h \in DOMAIN handlers :
         /\ handlers[h].pc = "idle" /\ handlers'[h].accepted
         /\ ~handlers'[h].msg.bot
         /\ handlers'[h].at = now /\ lastCommandTimestamp' = now
         /\ now - lastCommandTimestamp >= Cooldown
  /\ \A h \in DOMAIN handlers :
       (handlers[h].pc = "idle" /\ handlers'[h].pc # "idle" /\ ~handlers'[h].accepted)
         => lastCommandTimestamp' = lastCommandTimestamp

\* C17: the cooldown is process-wide: any two messages that pass the gate
\* arrived at least 5000 ms apart, whoever sent them and however the handlers
\* in flight interleave; a message inside the cooldown gets no reply, causes no
\* external call and leaves lastCommandTimestamp alone, and so does a message
\* of a bot.
C17_ProcessWideCooldown == []C17_AcceptedFarApart /\ [][C17_StampOnlyOnAccept]_vars

\* A message passed the gate, and was answered, while the handler of an
\* earlier one still awaits its completion.
C17_Witness ==
  /\ handlers["h1"].pc = "await_ask" /\ handlers["h1"].accepted
  /\ handlers["h2"].pc = "done" /\ handlers["h2"].accepted
  /\ handlers["h2"].replies = << Pong >>
  /\ handlers["h2"].at - handlers["h1"].at >= Cooldown

\* The dice types and their sizes.
DiceTypes ==
  { << "d", "4" >>, << "d", "6" >>, << "d", "8" >>, << "d", "1", "0" >>,
    << "d", "1", "2" >>, << "d", "2", "0" >>, << "d", "1", "0", "0" >> }

SizeOfDice(t) ==
  CASE t = << "d", "4" >> -> 4
    [] t = << "d", "6" >> -> 6
    [] t = << "d", "8" >> -> 8
    [] t = << "d", "1", "0" >> -> 10
    [] t = << "d", "1", "2" >> -> 12
    [] t = << "d", "2", "0" >> -> 20
    [] t = << "d", "1", "0", "0" >> -> 100

\* The second word of a content, in lower case (Undefined when there is none).
SecondWord(content) ==
  LET args == Split(content, << >>)
  IN  IF Len(args) >= 2 THEN ToLowerCase(args[2]) ELSE Undefined

RepliesOfKind(r, kind) == {k \in 1..Len(r.replies) : r.replies[k].kind = kind}

\* C18: an accepted "!roll" whose second word is no dice type (or is missing)
\* gets exactly one "Invalid dice type" reply, and neither a GIF request nor a
\* roll; with a dice type it gets exactly one result reply, with a value in
\* 1..N for the N of the type, whether the GIF request fails or not.
C18_RollReplies ==
  \A h \in Handlers :
    LET r == handlers[h]
        word == SecondWord(r.msg.content)
    IN  (r.accepted /\ StartsWith(r.msg.content, Roll))
          => IF word \in DiceTypes
             THEN /\ RepliesOfKind(r, "invalid") = {}
                  /\ \A k \in RepliesOfKind(r, "roll") :
                       r.replies[k].value \in 1..SizeOfDice(word)
                  /\ r.pc = "done" => Cardinality(RepliesOfKind(r, "roll")) = 1
             ELSE /\ r.gifRequests = 0
                  /\ RepliesOfKind(r, "gif") = {}
                  /\ RepliesOfKind(r, "roll") = {}
                  /\ r.pc = "done" => Cardinality(RepliesOfKind(r, "invalid")) = 1

\* The question of an "!ask" message, and of a message that mentions the bot.
AskQuestion(content) == Trim(Slice(content, 5))
MentionQuestion(content) == Trim(RemoveFirst(content, MentionToken))

\* C19: an accepted message causes at most one chat completion request and at
\* most one reply made from a completion (the answer or the apology), also
\* when it mentions the bot and starts with "!ask"; and an "!ask" or a mention
\* with an empty question causes no request.
C19_AtMostOneCompletion ==
  \A h \in Handlers :
    LET r == handlers[h]
        c == r.msg.content
        asks == StartsWith(c, Ask) /\ AskQuestion(c) # << >>
        mentions == r.msg.mentions /\ MentionQuestion(c) # << >>
    IN  r.accepted
          => /\ r.requests <= 1
             /\ Cardinality(RepliesOfKind(r, "answer") \cup RepliesOfKind(r, "apology")) <= 1
             /\ (~asks /\ ~mentions) => r.requests = 0

\* C20: in the revision that polls the free games from the ready event, the
\* ready callback runs at most once in a process, also when the gateway emits
\* ready again after a reconnect: one immediate poll is made, at the first
\* ready, and there is never more than one 24 hour timer.
C20_ReadyOnce ==
  rev = "P"
    => /\ boot.readyRuns <= 1
       /\ boot.readyEmitted >= 1 => boot.readyRuns = 1
       /\ boot.immediatePolls = boot.readyRuns
       /\ boot.intervals = boot.readyRuns

\* The gateway emitted ready a second time after the callback had run.
C20_Witness ==
  /\ rev = "P"
  /\ boot.readyEmitted = 2
  /\ boot.readyRuns = 1 /\ boot.intervals = 1
  /\ "fetchFreeGames" \in boot.invoked

====
